---------------------------- MODULE Spec2Model ----------------------------
(***************************************************************************)
(* A model of cdrizzlemap.c: the pixel-map mapper, its inversion, the      *)
(* convex polygon intersection and the polygon scanner.                    *)
(*                                                                         *)
(* Numbers.  The C code computes in double.  In the polygon and scanner    *)
(* code a coordinate is here an integer count of hundredths of a pixel     *)
(* (Unit per pixel), so 0.5 is Half and MAX_INV_ERR (0.03) is 3.  The      *)
(* inputs are drawn from that grid and every quotient the code forms (edge *)
(* slopes, intersection parameters) is kept as an exact fraction, so the   *)
(* absolute tolerances of the code (VERTEX_ATOL = 1e-12, APPROX_ZERO =     *)
(* 1e3*DBL_MIN), which are far below the grid step, compare as exact       *)
(* equality / exact sign tests.                                            *)
(*                                                                         *)
(* The mapping code (interpolate_point, invert_pixmap) multiplies          *)
(* coordinates that range up to INT_MAX pixels, beyond the integers TLC    *)
(* has.  There a double is a signed fixed-point number of eight base-WBase *)
(* digits, least significant first, counting 1/WBase of a pixel; a         *)
(* negative number is held as its complement.  NaN is the empty tuple.     *)
(***************************************************************************)
EXTENDS Integers, Sequences, FiniteSets, TLC

VARIABLES
    par,      \* struct driz_param_t: xmin, xmax, ymin, ymax
    pixmap,   \* par->pixmap: rows of cells, a cell the pair <<x, y>>
    mIn,      \* map_point: xyin
    mOut,     \* map_point: the caller's xyout
    mStatus,  \* map_point: the value returned
    mPc,      \* map_point: "call" before the call, "done" after it
    scn,      \* struct scanner
    row,      \* the y passed to the latest get_scanline_limits call
    rc,       \* return code of the latest get_scanline_limits call
    x1, x2,   \* the caller's *x1, *x2
    hEnded,   \* history: some call before the latest one returned 1
    hMono,    \* history: the rows passed so far were non-decreasing
    hPrev,    \* history: the cursors <<left, right>> before the latest call
    inv,      \* invert_pixmap: its locals xmin, xmax, ymin, ymax, dx, dy, niter
    invRef,   \* invert_pixmap: xyout, the point to invert
    invXyin,  \* invert_pixmap: the caller's xyin
    invStatus,\* invert_pixmap: the value returned
    invPc,    \* invert_pixmap: "call", "loop" (at the loop test), "done"
    polyP,    \* intersect_convex_polygons: *p
    polyQ,    \* intersect_convex_polygons: *q
    polyPQ,   \* intersect_convex_polygons: *pq
    polyJunk, \* what the slots of p->v at and beyond npv hold
    polyRv,   \* intersect_convex_polygons: the value returned
    polyPc,   \* "call" before the call, "done" after it
    polyWalk, \* the locals of the edge walk when the loop was left
    polyIn,   \* history: *p, *q and *pq as they were before the call
    img,      \* init_image_scanner: its locals and outputs, and where it is
    outDim    \* PyArray_DIMS(par->output_data): <<rows, columns>>

scanVars == <<scn, row, rc, x1, x2, hEnded, hMono, hPrev>>

parVars == <<par, pixmap>>
mapVars == <<mIn, mOut, mStatus, mPc>>
invVars == <<inv, invRef, invXyin, invStatus, invPc>>
polyVars ==
    <<polyP, polyQ, polyPQ, polyJunk, polyRv, polyPc, polyWalk, polyIn>>
imgVars == <<img, outDim>>

vars == <<parVars, mapVars, invVars, polyVars, imgVars, scanVars>>

Unit == 100
Half == Unit \div 2
MAX_INV_ERR == 3
NULL == 0 - 1
NoCall == 0 - 1

Abs(a) == IF a < 0 THEN -a ELSE a
Sgn(a) == IF a < 0 THEN -1 ELSE IF a > 0 THEN 1 ELSE 0

\* C's a % b (the quotient truncates toward zero)
CRem(a, b) == IF a >= 0 THEN a % b ELSE -((-a) % b)

mod(a, b) == CRem(a + b, b)

Vtx(x, y) == [x |-> x, y |-> y]

\* a polygon with the vertices of the tuple t in v[0 .. npv-1]
Poly(t) == [npv |-> Len(t), v |-> t]

\* p->v[i] for 0 <= i < npv
At(p, i) == p.v[i + 1]

Par(xmin, xmax, ymin, ymax) ==
    [xmin |-> xmin, xmax |-> xmax, ymin |-> ymin, ymax |-> ymax]

-----------------------------------------------------------------------------
(* double, as the mapping code uses it: eight base-WBase digits *)
WBase == 10000

\* The element of a one-element set.  An operator below that uses an argument
\* more than once is written Only({ e : a \in {a0} }), which evaluates the
\* argument a0 once and names its value a in e.
Only(S) == CHOOSE r \in S : TRUE

\* the digits of t brought back into 0 .. WBase-1, the carries passed upward
\* and the carry out of the last digit dropped
WNorm(t0) ==
    Only({ LET
        s1 == t[1]
        s2 == t[2] + s1 \div WBase
        s3 == t[3] + s2 \div WBase
        s4 == t[4] + s3 \div WBase
        s5 == t[5] + s4 \div WBase
        s6 == t[6] + s5 \div WBase
        s7 == t[7] + s6 \div WBase
        s8 == t[8] + s7 \div WBase
            IN  <<s1 % WBase, s2 % WBase, s3 % WBase, s4 % WBase, s5 % WBase,
              s6 % WBase, s7 % WBase, s8 % WBase>>
          : t \in {t0} })

WAdd(a0, b0) ==
    Only({ WNorm(<<a[1] + b[1], a[2] + b[2], a[3] + b[3], a[4] + b[4], a[5] + b[5],
              a[6] + b[6], a[7] + b[7], a[8] + b[8]>>)
          : a \in {a0}, b \in {b0} })

WNeg(a0) ==
    Only({ WNorm(<<WBase - a[1], WBase - 1 - a[2], WBase - 1 - a[3], WBase - 1 - a[4],
              WBase - 1 - a[5], WBase - 1 - a[6], WBase - 1 - a[7], WBase - 1 - a[8]>>)
          : a \in {a0} })

WSub(a0, b0) ==
    Only({ WNorm(<<a[1] + (WBase - b[1]), a[2] + (WBase - 1 - b[2]),
              a[3] + (WBase - 1 - b[3]), a[4] + (WBase - 1 - b[4]),
              a[5] + (WBase - 1 - b[5]), a[6] + (WBase - 1 - b[6]),
              a[7] + (WBase - 1 - b[7]), a[8] + (WBase - 1 - b[8])>>)
          : a \in {a0}, b \in {b0} })

\* the low eight digits of the product
WMul(a0, b0) ==
    Only({ WNorm(<<a[1] * b[1], a[1] * b[2] + a[2] * b[1],
              a[1] * b[3] + a[2] * b[2] + a[3] * b[1],
              a[1] * b[4] + a[2] * b[3] + a[3] * b[2] + a[4] * b[1],
              a[1] * b[5] + a[2] * b[4] + a[3] * b[3] + a[4] * b[2] + a[5] * b[1],
              a[1] * b[6] + a[2] * b[5] + a[3] * b[4] + a[4] * b[3] + a[5] * b[2] + a[6] * b[1],
              a[1] * b[7] + a[2] * b[6] + a[3] * b[5] + a[4] * b[4] + a[5] * b[3] + a[6] * b[2] + a[7] * b[1],
              a[1] * b[8] + a[2] * b[7] + a[3] * b[6] + a[4] * b[5] + a[5] * b[4] + a[6] * b[3] + a[7] * b[2] + a[8] * b[1]>>)
          : a \in {a0}, b \in {b0} })

WIsNeg(a) == a[8] >= WBase \div 2

\* a divided by WBase, rounded down
WShr(a0) ==
    Only({ <<a[2], a[3], a[4], a[5], a[6], a[7], a[8],
              IF WIsNeg(a) THEN WBase - 1 ELSE 0>>
          : a \in {a0} })

WNat(n0) ==
    Only({ <<n % WBase, (n \div WBase) % WBase, n \div (WBase * WBase),
              0, 0, 0, 0, 0>>
          : n \in {n0} })

\* the product of two fixed-point numbers, rounded down to 1/WBase
WFMul(a, b) == WShr(WMul(a, b))

WLt(a, b) == WIsNeg(WSub(a, b))
WLe(a, b) == ~WLt(b, a)

\* the integer n as a count of 1/WBase
W(n0) == Only({ IF n >= 0 THEN WNat(n) ELSE WNeg(WNat(-n)) : n \in {n0} })

\* (double) n for an int n of pixels
WPx(n) == WMul(W(n), W(WBase))

\* n hundredths of a pixel
WFromUnit(n) == W(n * (WBase \div Unit))

\* a number of small magnitude as a count of 1/WBase
WToInt(a0) ==
    Only({ IF WIsNeg(a)
           THEN -Only({ m[1] + WBase * m[2] + WBase * WBase * m[3]
                       : m \in {WNeg(a)} })
           ELSE a[1] + WBase * a[2] + WBase * WBase * a[3]
         : a \in {a0} })

WHalf == W(WBase \div 2)
WOne == W(WBase)
WNaN == <<>>
IsNaN(a) == a = WNaN

\* the values an uninitialized double may hold
UninitDoubles == {WNaN, W(0), WFromUnit(83825)}

-----------------------------------------------------------------------------
(* The pixel map, an array of ny rows of nx cells, a cell the pair <<x, y>>. *)
(* rows holds the cells of the first rows and columns: rows[j + 1][i + 1] is *)
(* the cell of row j, column i.  An image too large to write down has the   *)
(* cells beyond that block map (i, j) to itself.                            *)
Pixmap(rows) == [nx |-> Len(rows[1]), ny |-> Len(rows), rows |-> rows]

get_pixmap(pm, i0, j0) ==
    Only({ IF j < Len(pm.rows) /\ i < Len(pm.rows[1]) THEN pm.rows[j + 1][i + 1]
           ELSE <<WPx(i), WPx(j)>>
         : i \in {i0}, j \in {j0} })

PixCols(pm) == pm.nx
PixRows(pm) == pm.ny

\* a cell holding (x, y) hundredths
Cell(x, y) == <<WFromUnit(x), WFromUnit(y)>>
NaNCell == <<WNaN, WNaN>>

\* lines 104-121: (int) x, then clipped to 0 .. hi  (hi >= 0)
BaseIndex(x0, hi0) ==
    Only({ IF WLt(x, WOne) THEN 0
           ELSE IF WLe(WPx(hi + 1), x) THEN hi
           ELSE WToInt(WShr(x))
         : x \in {x0}, hi \in {hi0} })

\* lines 144-145: f00*x1*y1 + f10*x*y1 + f01*x1*y + f11*x*y
Bilinear(f00, f10, f01, f11, x, y, xc, yc) ==
    IF IsNaN(f00) \/ IsNaN(f10) \/ IsNaN(f01) \/ IsNaN(f11) THEN WNaN
    ELSE WAdd(WAdd(WAdd(WFMul(WFMul(f00, xc), yc),
                        WFMul(WFMul(f10, x), yc)),
                   WFMul(WFMul(f01, xc), y)),
              WFMul(WFMul(f11, x), y))

\* lines 104-149, for the base cell (i0, j0)
InterpolateAt(pm, xin, yin, i0, j0) ==
    Only({ Only({ [status |-> IF IsNaN(xout) \/ IsNaN(yout) THEN 1 ELSE 0,
                    xout |-> xout, yout |-> yout]
                 : xout \in {Bilinear(p00[1], p10[1], p01[1], p11[1],
                                       x, y, WSub(WOne, x), WSub(WOne, y))},
                   yout \in {Bilinear(p00[2], p10[2], p01[2], p11[2],
                                       x, y, WSub(WOne, x), WSub(WOne, y))} })
         : x \in {WSub(xin, WPx(i0))}, y \in {WSub(yin, WPx(j0))},
           p00 \in {get_pixmap(pm, i0, j0)},
           p10 \in {get_pixmap(pm, i0 + 1, j0)},
           p01 \in {get_pixmap(pm, i0, j0 + 1)},
           p11 \in {get_pixmap(pm, i0 + 1, j0 + 1)} })

interpolate_point(pm, xin0, yin0) ==
    Only({ Only({ InterpolateAt(pm, xin, yin, i0, j0)
                 : i0 \in {BaseIndex(xin, PixCols(pm) - 2)},
                   j0 \in {BaseIndex(yin, PixRows(pm) - 2)} })
         : xin \in {xin0}, yin \in {yin0} })

\* xyout[k] is written up to and including the first NaN coordinate
map_pixel(pm, i, j, xyout) ==
    Only({ IF IsNaN(c[1]) THEN [status |-> 1, xyout |-> <<c[1], xyout[2]>>]
           ELSE IF IsNaN(c[2]) THEN [status |-> 1, xyout |-> c]
           ELSE [status |-> 0, xyout |-> c]
         : c \in {get_pixmap(pm, i, j)} })

map_pixel_fwd(pm, i, j) ==
    Only({ [status |-> IF IsNaN(c[1]) \/ IsNaN(c[2]) THEN 1 ELSE 0,
            xout |-> c[1], yout |-> c[2]]
         : c \in {get_pixmap(pm, i, j)} })

\* (double) (int) x == x
IsIntegral(x) == x[1] = 0

\* (int) x for an integral x
IntOf(x) == WToInt(WShr(x))

\* xout0, yout0: what the locals xout, yout hold before anything is stored
\* in them
map_point(prm, pm, xyin0, xyout, xout0, yout0) ==
    Only({ IF IsIntegral(xyin[1]) /\ IsIntegral(xyin[2])
           THEN Only({ IF /\ i >= prm.xmin /\ i <= prm.xmax
                          /\ j >= prm.ymin /\ j <= prm.ymax
                       THEN [status |-> map_pixel(pm, i, j, xyout).status,
                             xyout |-> <<xout0, yout0>>]
                       ELSE [status |-> 1, xyout |-> xyout]
                     : i \in {IntOf(xyin[1])}, j \in {IntOf(xyin[2])} })
           ELSE Only({ [status |-> r.status, xyout |-> <<r.xout, r.yout>>]
                     : r \in {interpolate_point(pm, xyin[1], xyin[2])} })
         : xyin \in {xyin0} })

map_point_new(pm, xin0, yin0) ==
    Only({ IF IsIntegral(xin) /\ IsIntegral(yin)
           THEN map_pixel_fwd(pm, IntOf(xin), IntOf(yin))
           ELSE interpolate_point(pm, xin, yin)
         : xin \in {xin0}, yin \in {yin0} })

-----------------------------------------------------------------------------
(* invert_pixmap: the golden-section search. *)

\* gr = 0.6180339887498948482, here as a count of 1/10^8
gr == 61803398
nmax_iter == 50

\* gr * a
GrMul(a) == WShr(WShr(WMul(a, W(gr))))

\* MAX_INV_ERR as a double
InvTol == WFromUnit(MAX_INV_ERR)

\* dist2 is kept unscaled (in 1/WBase^2); it is only ever compared with
\* another dist2
eval_inversion(pm, x, y, xyref) ==
    Only({ IF r.status /= 0 THEN [status |-> 1, dist2 |-> WNaN]
           ELSE Only({ [status |-> 0, dist2 |-> WAdd(WMul(dx, dx), WMul(dy, dy))]
                     : dx \in {WSub(r.xout, xyref[1])},
                       dy \in {WSub(r.yout, xyref[2])} })
         : r \in {interpolate_point(pm, x, y)} })

\* lines 271-278: the locals before the loop; failed tells that the loop was
\* left by a return 1 of lines 289-292
InvStart(prm) ==
    [xmin |-> WSub(WPx(prm.xmin), WHalf), xmax |-> WAdd(WPx(prm.xmax), WHalf),
     ymin |-> WSub(WPx(prm.ymin), WHalf), ymax |-> WAdd(WPx(prm.ymax), WHalf),
     dx |-> WAdd(WPx(prm.xmax), WHalf), dy |-> WAdd(WPx(prm.ymax), WHalf),
     niter |-> 0, failed |-> FALSE]

\* line 280: the loop test
InvOn(st) ==
    /\ ~st.failed
    /\ WLt(InvTol, st.dx) \/ WLt(InvTol, st.dy)
    /\ st.niter < nmax_iter

\* the locals once the rectangle is cut to [xa, xb] x [ya, yb]
InvBox(st, xa, xb, ya, yb) ==
    [st EXCEPT !.xmin = xa, !.xmax = xb, !.ymin = ya, !.ymax = yb,
               !.dx = WSub(xb, xa), !.dy = WSub(yb, ya),
               !.niter = st.niter + 1]

\* lines 294-307: the quadrant kept, given the four distances
InvKeep(st, gx1, gx2, gy1, gy2, d11, d12, d21, d22) ==
    IF WLt(d11, d12) /\ WLt(d11, d21) /\ WLt(d11, d22)
    THEN InvBox(st, st.xmin, gx2, st.ymin, gy2)
    ELSE IF WLt(d12, d11) /\ WLt(d12, d21) /\ WLt(d12, d22)
    THEN InvBox(st, st.xmin, gx2, gy1, st.ymax)
    ELSE IF WLt(d21, d11) /\ WLt(d21, d12) /\ WLt(d21, d22)
    THEN InvBox(st, gx1, st.xmax, st.ymin, gy2)
    ELSE InvBox(st, gx1, st.xmax, gy1, st.ymax)

\* lines 281-310: one pass of the loop body; gx1, gx2, gy1, gy2 are the
\* locals x1, x2, y1, y2
InvStep(pm, xyout, st0) ==
    Only({ Only({ Only({
        IF \/ e11.status /= 0 \/ e12.status /= 0
           \/ e21.status /= 0 \/ e22.status /= 0
        THEN [st EXCEPT !.niter = st.niter + 1, !.failed = TRUE]
        ELSE InvKeep(st, gx1, gx2, gy1, gy2,
                     e11.dist2, e12.dist2, e21.dist2, e22.dist2)
        : e11 \in {eval_inversion(pm, gx1, gy1, xyout)},
          e12 \in {eval_inversion(pm, gx1, gy2, xyout)},
          e21 \in {eval_inversion(pm, gx2, gy1, xyout)},
          e22 \in {eval_inversion(pm, gx2, gy2, xyout)} })
      : gx1 \in {WSub(st.xmax, GrMul(st.dx))},
        gx2 \in {WAdd(st.xmin, GrMul(st.dx))},
        gy1 \in {WSub(st.ymax, GrMul(st.dy))},
        gy2 \in {WAdd(st.ymin, GrMul(st.dy))} })
    : st \in {st0} })

\* 0.5 * (a + b)
Centre(a, b) == WFMul(WHalf, WAdd(a, b))

\* lines 289-292 and 312-317: what is returned once the loop is left; xyin
\* is the caller's array
InvReturn(st, xyin) ==
    IF st.failed THEN [status |-> 1, xyin |-> xyin]
    ELSE [status |-> IF st.niter = nmax_iter THEN 1 ELSE 0,
          xyin |-> <<Centre(st.xmin, st.xmax), Centre(st.ymin, st.ymax)>>]

RECURSIVE InvRun(_, _, _)
InvRun(pm, xyout, st0) ==
    Only({ IF InvOn(st) THEN InvRun(pm, xyout, InvStep(pm, xyout, st)) ELSE st
         : st \in {st0} })

invert_pixmap(prm, pm, xyout, xyin) ==
    Only({ InvReturn(st, xyin) : st \in {InvRun(pm, xyout, InvStart(prm))} })

-----------------------------------------------------------------------------
(* Polygons: orientation, containment, simplification, intersection. *)

IMAGE_OUTLINE_NPTS == 8

\* equal_vertices with atol = VERTEX_ATOL: on the grid, the same point
equal_vertices(a, b) == a.x = b.x /\ a.y = b.y

area(a, b) == a.x * b.y - a.y * b.x

\* (v - v_) x (pt - v_) >= -APPROX_ZERO
is_point_in_hp(pt, v_, v) == area(v, pt) - area(v_, pt) - area(v, v_) >= 0

\* (v - v_) x (pt - v_) > APPROX_ZERO
is_point_strictly_in_hp(pt, v_, v) ==
    area(v, pt) - area(v_, pt) - area(v, v_) > 0

\* every vertex of p is in the half-plane of every edge (v[i-1], v[i]) of q
is_poly_contained(p, q) ==
    \A i \in 0..(q.npv - 1) : \A j \in 0..(p.npv - 1) :
        is_point_in_hp(At(p, j), At(q, mod(i - 1, q.npv)), At(q, i))

append_vertex(p, v) ==
    IF p.npv > 0 /\ equal_vertices(At(p, p.npv - 1), v) THEN [rv |-> 0, p |-> p]
    ELSE IF p.npv > 0 /\ equal_vertices(At(p, 0), v) THEN [rv |-> 1, p |-> p]
    ELSE IF p.npv >= 2 * IMAGE_OUTLINE_NPTS THEN [rv |-> 1, p |-> p]
    ELSE [rv |-> 0, p |-> [npv |-> p.npv + 1, v |-> Append(p.v, v)]]

\* lines 423-436: vertex k is kept unless it lies on the line through its
\* neighbours or its neighbours coincide
KeepVertex(p, k) ==
    LET pv_ == At(p, mod(k - 1, p.npv))
        pv  == At(p, k)
        pvnxt == At(p, mod(k + 1, p.npv))
        dp == Vtx(pvnxt.x - pv_.x, pvnxt.y - pv_.y)
        dq == Vtx(pv.x - pv_.x, pv.y - pv_.y)
    IN  area(dp, dq) /= 0 /\ (dp.x /= 0 \/ dp.y /= 0)

RECURSIVE KeptFrom(_, _)
KeptFrom(p, k) ==
    IF k >= p.npv THEN <<>>
    ELSE (IF KeepVertex(p, k) THEN <<At(p, k)>> ELSE <<>>) \o KeptFrom(p, k + 1)

simplify_polygon(p) == IF p.npv < 3 THEN p ELSE Poly(KeptFrom(p, 0))

RECURSIVE SumX(_, _)
SumX(p, k) == IF k >= p.npv THEN 0 ELSE At(p, k).x + SumX(p, k + 1)

RECURSIVE SumY(_, _)
SumY(p, k) == IF k >= p.npv THEN 0 ELSE At(p, k).y + SumY(p, k + 1)

RECURSIVE Reversed(_)
Reversed(s) == IF s = <<>> THEN <<>> ELSE Append(Reversed(Tail(s)), Head(s))

\* lines 471-476
ReverseVertices(p) == [npv |-> p.npv, v |-> Reversed(p.v)]

\* cm0: what the local cm holds on entry; it is never set before the sums
\* are added to it (line 448).  The sign of area(v1 - cm, v2 - cm) is taken
\* of the same expression scaled by npv * npv.
orient_ccw(p, cm0) ==
    IF p.npv < 3 THEN p
    ELSE IF cm0.nan THEN ReverseVertices(p)
    ELSE LET n  == p.npv
             sx == cm0.x + SumX(p, 0)
             sy == cm0.y + SumY(p, 0)
             v1 == Vtx(n * At(p, 0).x - sx, n * At(p, 0).y - sy)
             v2 == Vtx(n * At(p, 1).x - sx, n * At(p, 1).y - sy)
         IN  IF area(v1, v2) >= 0 THEN p ELSE ReverseVertices(p)

\* the values the uninitialized struct vertex cm may hold
UninitVertices ==
    { [nan |-> FALSE, x |-> 0, y |-> 0],
      [nan |-> FALSE, x |-> 5000, y |-> -2500],
      [nan |-> TRUE, x |-> 0, y |-> 0] }

\* p->v[i]; a slot at or beyond npv holds junk
Slot(p, i, junk) == IF i < p.npv THEN At(p, i) ELSE junk

\* lines 508-514: the locals on entry to the edge walk; pv_, pv, qv_, qv are
\* kept as indices into p->v and q->v, brk tells that the loop was left by
\* break (revisit: by the break of line 550), and pairs counts the edge
\* pairs the loop body was run for
WalkStart(p, q) ==
    [ip |-> 0, iq |-> 0, inside |-> 0,
     pv_ |-> p.npv - 1, pv |-> 0, qv_ |-> q.npv - 1, qv |-> 0,
     first_k |-> -2, first_intersect |-> Vtx(0, 0),
     pq |-> Poly(<<>>), k |-> 0, brk |-> FALSE, revisit |-> FALSE,
     pairs |-> 0]

\* a slip that lets the walk run one edge pair more
WalkLimit_More(p, q) == 2 * (p.npv + q.npv) + 1

\* line 516: the last value of k for which the loop body runs
WalkLimit(p, q) == 2 * (p.npv + q.npv)

AdvanceP(w, n) == [w EXCEPT !.ip = w.ip + 1, !.pv_ = w.pv,
                            !.pv = mod(w.ip + 1, n), !.k = w.k + 1]

AdvanceQ(w, n) == [w EXCEPT !.iq = w.iq + 1, !.qv_ = w.qv,
                            !.qv = mod(w.iq + 1, n), !.k = w.k + 1]

Break(w) == [w EXCEPT !.brk = TRUE]

\* append v, then advance with adv unless the append fails
AppendThen(w, doAppend, v, adv) ==
    IF ~doAppend THEN adv
    ELSE LET r == append_vertex(w.pq, v)
         IN  IF r.rv /= 0 THEN Break([w EXCEPT !.pq = r.p])
             ELSE [adv EXCEPT !.pq = r.p]

\* lines 564-609
Advance(p, q, junk, w, d, signed_area, pv_in_hpdq, qv_in_hpdp) ==
    LET pv == Slot(p, w.pv, junk)
        qv == At(q, w.qv)
    IN  IF d = 0 /\ ~pv_in_hpdq /\ ~qv_in_hpdp
        THEN IF w.inside = 1 THEN AdvanceQ(w, q.npv) ELSE AdvanceP(w, p.npv)
        ELSE IF signed_area >= 0
        THEN IF qv_in_hpdp
             THEN AppendThen(w, w.inside = 1, pv, AdvanceP(w, p.npv))
             ELSE AppendThen(w, w.inside = -1, qv, AdvanceQ(w, q.npv))
        ELSE IF pv_in_hpdq
             THEN AppendThen(w, w.inside = -1, qv, AdvanceQ(w, q.npv))
             ELSE AppendThen(w, w.inside = 1, pv, AdvanceP(w, q.npv))

\* lines 517-609: the loop body for one edge pair
WalkBody(p, q, junk, w) ==
    LET pv_ == Slot(p, w.pv_, junk)
        pv  == Slot(p, w.pv, junk)
        qv_ == At(q, w.qv_)
        qv  == At(q, w.qv)
        dp  == Vtx(pv.x - pv_.x, pv.y - pv_.y)
        dq  == Vtx(qv.x - qv_.x, qv.y - qv_.y)
        t0  == (pv_.y - qv_.y) * dq.x - (pv_.x - qv_.x) * dq.y
        u0  == (pv_.y - qv_.y) * dp.x - (pv_.x - qv_.x) * dp.y
        signed_area == area(dp, dq)
        t   == IF signed_area >= 0 THEN t0 ELSE -t0
        u   == IF signed_area >= 0 THEN u0 ELSE -u0
        d   == Abs(signed_area)
        pv_in_hpdq == is_point_strictly_in_hp(qv_, qv, pv)
        qv_in_hpdp == is_point_strictly_in_hp(pv_, pv, qv)
        cross == 0 <= t /\ t <= d /\ 0 <= u /\ u <= d /\ d > 0
        vi  == Vtx(pv_.x + ((pv.x - pv_.x) * t) \div d,
                   pv_.y + ((pv.y - pv_.y) * t) \div d)
        setInside(x) ==
            [x EXCEPT !.inside = IF pv_in_hpdq THEN 1
                                 ELSE IF qv_in_hpdp THEN -1 ELSE x.inside]
        ap == append_vertex(w.pq, vi)
        w1 == IF ~cross THEN w
              ELSE IF w.first_k < 0
              THEN LET f == [w EXCEPT !.first_intersect = vi, !.first_k = w.k,
                                      !.pq = ap.p]
                   IN  IF ap.rv /= 0 THEN Break(f) ELSE setInside(f)
              ELSE IF equal_vertices(w.first_intersect, vi)
              THEN IF w.k > w.first_k + 1
                   THEN [w EXCEPT !.brk = TRUE, !.revisit = TRUE]
                   ELSE setInside([w EXCEPT !.first_k = w.k])
              ELSE IF ap.rv /= 0 THEN Break([w EXCEPT !.pq = ap.p])
                   ELSE setInside([w EXCEPT !.pq = ap.p])
        w2 == IF w1.brk THEN w1
              ELSE Advance(p, q, junk, w1, d, signed_area, pv_in_hpdq, qv_in_hpdp)
    IN  [w2 EXCEPT !.pairs = w.pairs + 1]

\* the loop test of line 516
WalkOn(p, q, w) == ~w.brk /\ w.k <= WalkLimit(p, q)

RECURSIVE WalkRun(_, _, _, _)
WalkRun(p, q, junk, w) ==
    IF WalkOn(p, q, w) THEN WalkRun(p, q, junk, WalkBody(p, q, junk, w)) ELSE w

\* lines 495-614: both polygons have three vertices or more.  cmp, cmq: what
\* the local cm of the two orient_ccw calls holds; junk: the spare slots of
\* p->v.  p and q are reoriented in place; w is the edge walk as it ended
\* (as it would start, if a containment test settled the call).
Intersection(p0, q0, cmp, cmq, junk) ==
    LET p == orient_ccw(p0, cmp)
        q == orient_ccw(q0, cmq)
        w == WalkRun(p, q, junk, WalkStart(p, q))
    IN  IF is_poly_contained(p, q)
        THEN [rv |-> 0, p |-> p, q |-> q, pq |-> simplify_polygon(p),
              w |-> WalkStart(p, q)]
        ELSE IF is_poly_contained(q, p)
        THEN [rv |-> 0, p |-> p, q |-> q, pq |-> simplify_polygon(q),
              w |-> WalkStart(p, q)]
        ELSE [rv |-> 0, p |-> p, q |-> q, pq |-> simplify_polygon(w.pq),
              w |-> w]

\* a slip that hands back an empty result when an input is not a polygon
intersect_convex_polygons_Clear(p0, q0, pq0, cmp, cmq, junk) ==
    IF p0.npv < 3 \/ q0.npv < 3
    THEN [rv |-> 1, p |-> p0, q |-> q0, pq |-> Poly(<<>>),
          w |-> WalkStart(p0, q0)]
    ELSE Intersection(p0, q0, cmp, cmq, junk)

\* pq0: what the caller's pq holds before the call
intersect_convex_polygons(p0, q0, pq0, cmp, cmq, junk) ==
    IF p0.npv < 3 \/ q0.npv < 3
    THEN [rv |-> 1, p |-> p0, q |-> q0, pq |-> pq0, w |-> WalkStart(p0, q0)]
    ELSE Intersection(p0, q0, cmp, cmq, junk)

-----------------------------------------------------------------------------
(* init_edge.  m, b and c are quotients by (v2.y - v1.y); each is kept as   *)
(* numerator n over denominator d > 0 (d = 0: the C quotient is not finite).*)
Frac(n, d) == [n |-> n, d |-> d]

init_edge(v1, v2, position) ==
    LET dy == v2.y - v1.y
        dx == v2.x - v1.x
        sg == Sgn(dy)
        d  == Abs(dy)
        bn == sg * (v1.x * v2.y - v1.y * v2.x)
    IN  [v1 |-> v1, v2 |-> v2, p |-> position,
         m |-> Frac(sg * dx, d),
         b |-> Frac(bn, d),
         c |-> Frac(bn - position * (Half * d + Half * Abs(dx)), d)]

RECURSIVE ArgMinY(_, _, _)
\* lines 647-654: the first vertex of least y among v[k .. npv-1] and v[best]
ArgMinY(p, k, best) ==
    IF k >= p.npv THEN best
    ELSE ArgMinY(p, k + 1, IF At(p, k).y < At(p, best).y THEN k ELSE best)

RECURSIVE ArgMaxY(_, _, _)
ArgMaxY(p, k, best) ==
    IF k >= p.npv THEN best
    ELSE ArgMaxY(p, k + 1, IF At(p, k).y > At(p, best).y THEN k ELSE best)

\* the slots of left_edges and of right_edges: the chains of a polygon of
\* 2 * IMAGE_OUTLINE_NPTS vertices fit
EdgeSlots == 0..(2 * IMAGE_OUTLINE_NPTS - 1)

\* the scanner fields init_scanner leaves unset when it fails, and the slots
\* of the edge arrays it does not write, are kept from s0
init_scanner(p, s0, prm) ==
    IF p.npv < 3
    THEN [rv |-> 1,
          s |-> [s0 EXCEPT !.left = NULL, !.right = NULL, !.nleft = 0,
                           !.nright = 0, !.overlap_valid = 0]]
    ELSE
    LET n    == p.npv
        ml0  == ArgMinY(p, 1, 0)
        min_y == At(p, ml0).y
        a1   == mod(ml0 - 1, n)
        a2   == mod(ml0 + 1, n)
        mr0  == IF At(p, a1).y < At(p, a2).y THEN a1 ELSE a2
        tieMin == At(p, mr0).y <= min_y
        swapMin == tieMin /\ At(p, ml0).x > At(p, mr0).x
        min_left  == IF swapMin THEN mr0 ELSE ml0
        min_right == IF ~tieMin THEN ml0 ELSE IF swapMin THEN ml0 ELSE mr0
        xr0  == ArgMaxY(p, 1, 0)
        max_y == At(p, xr0).y
        b1   == mod(xr0 - 1, n)
        b2   == mod(xr0 + 1, n)
        xl0  == IF At(p, b1).y > At(p, b2).y THEN b1 ELSE b2
        tieMax == At(p, xl0).y >= max_y
        swapMax == tieMax /\ At(p, xl0).x > At(p, xr0).x
        max_left  == IF ~tieMax THEN xr0 ELSE IF swapMax THEN xr0 ELSE xl0
        max_right == IF swapMax THEN xl0 ELSE xr0
        min_left2 == IF max_left > min_left THEN min_left + n ELSE min_left
        nleft  == min_left2 - max_left
        max_right2 == IF max_right < min_right THEN max_right + n ELSE max_right
        nright == max_right2 - min_right
        ledge(k) == LET i1 == mod(min_left2 - k, n)
                        i2 == mod(i1 - 1, n)
                    IN  init_edge(At(p, i1), At(p, i2), -1)
        redge(k) == LET i1 == mod(min_right + k, n)
                        i2 == mod(i1 + 1, n)
                    IN  init_edge(At(p, i1), At(p, i2), 1)
    IN  [rv |-> 0,
         s |-> [s0 EXCEPT !.left = 0, !.right = 0,
                          !.nleft = nleft, !.nright = nright,
                          !.left_edges =
                              [k \in EdgeSlots |-> IF k < nleft THEN ledge(k)
                                                   ELSE s0.left_edges[k]],
                          !.right_edges =
                              [k \in EdgeSlots |-> IF k < nright THEN redge(k)
                                                   ELSE s0.right_edges[k]],
                          !.min_y = min_y, !.max_y = max_y,
                          !.xmin = prm.xmin, !.xmax = prm.xmax,
                          !.ymin = prm.ymin, !.ymax = prm.ymax]]

-----------------------------------------------------------------------------
(* get_scanline_limits *)

\* m * y + c + err for the integer row y, as a fraction of Unit-ths
EdgeX(e, y, err) == Frac(e.m.n * (y * Unit) + e.c.n + err * e.m.d, e.m.d)

FracLt(a, b) == a.n * b.d < b.n * a.d
FracGe(a, b) == a.n * b.d >= b.n * a.d

\* (int) round(x): the nearest pixel column, halves away from zero
RoundPx(a) ==
    LET den == 2 * a.d * Unit
    IN  IF a.n >= 0 THEN (2 * a.n + a.d * Unit) \div den
        ELSE -((a.d * Unit - 2 * a.n) \div den)

\* the cursor has left the edge array and the loop reads on beyond the
\* scanner object: the call does not return a code
Fault == 0 - 2

\* the first slot past an edge array
PastEnd == 2 * IMAGE_OUTLINE_NPTS

\* the scanner with its cursors at slots l and r
Cursors2(s, l, r) == [s EXCEPT !.left = l, !.right = r]

\* *cursor for the cursor at slot k; a slot past the array holds junk
EdgeAt(edges, k, junk) == IF k \in DOMAIN edges THEN edges[k] ELSE junk

RECURSIVE SkipEdges(_, _, _, _, _, _)
\* while (lim > edges[k].v2.y + off) { if (k == kmax) return NULL; ++k; }
\* the walk is followed up to the first slot past the array
SkipEdges(edges, k, kmax, lim, off, junk) ==
    IF lim > EdgeAt(edges, k, junk).v2.y + off
    THEN IF k = kmax THEN NULL
         ELSE IF k \notin DOMAIN edges THEN Fault
         ELSE SkipEdges(edges, k + 1, kmax, lim, off, junk)
    ELSE k

\* a slip that clears one cursor only
Ended_LeftOnly(s) == [s EXCEPT !.left = NULL]

\* lines 769-771: both cursors are cleared
Ended(s) == [s EXCEPT !.left = NULL, !.right = NULL]

ScanOut(s, code, a1, a2) == [s |-> s, rc |-> code, x1 |-> a1, x2 |-> a2]

\* a slip that lets the row after the last clip row through
OutsideClip_Off(s, y) == s.ymax >= s.ymin /\ (y < 0 \/ y > s.ymax + 1)

\* line 752: the row is outside the image rows the clip range allows
OutsideClip(s, y) == s.ymax >= s.ymin /\ (y < 0 \/ y > s.ymax)

\* line 759: the pixel row [y - 0.5, y + 0.5] misses the polygon's rows
OutsideSpan(s, y) ==
    y * Unit + Half <= s.min_y \/ y * Unit - Half >= s.max_y + Unit

\* junk: what a read past the edge arrays finds
get_scanline_limits(s, y, ox1, ox2, junk) ==
    LET el_max == s.nleft - 1
        er_max == s.nright - 1
        pyb == y * Unit - Half
        pyt == y * Unit + Half
    IN
    IF OutsideClip(s, y) THEN ScanOut(s, 2, ox1, ox2)
    ELSE IF OutsideSpan(s, y) THEN ScanOut(s, 2, ox1, ox2)
    ELSE IF s.left = NULL \/ s.right = NULL THEN ScanOut(s, 1, ox1, ox2)
    ELSE
    LET l1 == SkipEdges(s.left_edges, s.left, el_max, pyb, 0, junk)
    IN  IF l1 = NULL THEN ScanOut(Ended(s), 1, ox1, ox2) ELSE
        IF l1 = Fault
        THEN ScanOut(Cursors2(s, PastEnd, s.right), Fault, ox1, ox2) ELSE
    LET r1 == SkipEdges(s.right_edges, s.right, er_max, pyb, 0, junk)
    IN  IF r1 = NULL THEN ScanOut(Ended(s), 1, ox1, ox2) ELSE
        IF r1 = Fault THEN ScanOut(Cursors2(s, l1, PastEnd), Fault, ox1, ox2)
        ELSE
    LET xlb0 == EdgeX(EdgeAt(s.left_edges, l1, junk), y, -MAX_INV_ERR)
        xrb0 == EdgeX(EdgeAt(s.right_edges, r1, junk), y, MAX_INV_ERR)
        l2 == SkipEdges(s.left_edges, l1, el_max, pyt, Half + MAX_INV_ERR,
                        junk)
    IN  IF l2 = NULL THEN ScanOut(Ended(s), 1, ox1, ox2) ELSE
        IF l2 = Fault THEN ScanOut(Cursors2(s, PastEnd, r1), Fault, ox1, ox2)
        ELSE
    LET r2 == SkipEdges(s.right_edges, r1, er_max, pyt, Half + MAX_INV_ERR,
                        junk)
    IN  IF r2 = NULL THEN ScanOut(Ended(s), 1, ox1, ox2) ELSE
        IF r2 = Fault THEN ScanOut(Cursors2(s, l2, PastEnd), Fault, ox1, ox2)
        ELSE
    LET xlt0 == EdgeX(EdgeAt(s.left_edges, l2, junk), y, -MAX_INV_ERR)
        xrt0 == EdgeX(EdgeAt(s.right_edges, r2, junk), y, MAX_INV_ERR)
        xmin == Frac(s.xmin * Unit, 1)
        xmax == Frac(s.xmax * Unit, 1)
        clip == s.xmax >= s.xmin
        xlb == IF clip /\ FracLt(xlb0, xmin) THEN xmin ELSE xlb0
        xlt == IF clip /\ FracLt(xlt0, xmin) THEN xmin ELSE xlt0
        xrb == IF clip /\ FracLt(xmax, xrb0) THEN xmax ELSE xrb0
        xrt == IF clip /\ FracLt(xmax, xrt0) THEN xmax ELSE xrt0
        s2 == Cursors2(s, l2, r2)
    IN  IF FracGe(xlt, xrt)
        THEN ScanOut(s2, IF FracGe(xlb, xrb) THEN 3 ELSE 0,
                     RoundPx(xlb), RoundPx(xrb))
        ELSE IF FracGe(xlb, xrb)
        THEN ScanOut(s2, 0, RoundPx(xlt), RoundPx(xrt))
        ELSE ScanOut(s2, 0,
                     RoundPx(IF FracLt(xlt, xlb) THEN xlb ELSE xlt),
                     RoundPx(IF FracLt(xrb, xrt) THEN xrb ELSE xrt))

-----------------------------------------------------------------------------
(* init_image_scanner.  The mapper works on doubles of 1/WBase, the polygon *)
(* code on hundredths; a value passing from one to the other is rounded    *)
(* down to the hundredth.                                                   *)

ToUnit(a) == WToInt(a) \div (WBase \div Unit)

\* (int) v for v in hundredths: the fraction is dropped
Trunc(v) == IF v >= 0 THEN v \div Unit ELSE -((-v) \div Unit)

Min(a, b) == IF a < b THEN a ELSE b
Max(a, b) == IF a > b THEN a ELSE b

\* a slip that insets the bounding box by half a pixel
InputBox_Inset(prm) ==
    Poly(<<Vtx(prm.xmin * Unit + Half, prm.ymin * Unit + Half),
           Vtx(prm.xmax * Unit - Half, prm.ymin * Unit + Half),
           Vtx(prm.xmax * Unit - Half, prm.ymax * Unit - Half),
           Vtx(prm.xmin * Unit + Half, prm.ymax * Unit - Half)>>)

\* lines 900-908: inpq, the box bounding the input image
InputBox(prm) ==
    Poly(<<Vtx(prm.xmin * Unit - Half, prm.ymin * Unit - Half),
           Vtx(prm.xmax * Unit + Half, prm.ymin * Unit - Half),
           Vtx(prm.xmax * Unit + Half, prm.ymax * Unit + Half),
           Vtx(prm.xmin * Unit - Half, prm.ymax * Unit + Half)>>)

\* lines 919-929: q, the box bounding the output image of ndim[0] rows and
\* ndim[1] columns (here ndim[1] and ndim[2])
OutputBox(ndim) ==
    Poly(<<Vtx(-Half, -Half),
           Vtx(ndim[2] * Unit - Half, -Half),
           Vtx(ndim[2] * Unit - Half, ndim[1] * Unit - Half),
           Vtx(-Half, ndim[1] * Unit - Half)>>)

map_to_output_vertex(pm, x, y) ==
    Only({ IF r.status /= 0 THEN [rv |-> 1, v |-> Vtx(0, 0)]
           ELSE [rv |-> 0, v |-> Vtx(ToUnit(r.xout), ToUnit(r.yout))]
         : r \in {map_point_new(pm, WFromUnit(x), WFromUnit(y))} })

\* v: what the caller's vertex holds before the call
map_to_input_vertex(prm, pm, x, y, v) ==
    Only({ IF r.status /= 0 THEN [rv |-> 1, v |-> v]
           ELSE [rv |-> 0, v |-> Vtx(ToUnit(r.xyin[1]), ToUnit(r.xyin[2]))]
         : r \in {invert_pixmap(prm, pm, <<WFromUnit(x), WFromUnit(y)>>,
                                <<W(0), W(0)>>)} })

\* lines 910-916: the four corners of the box, mapped in turn
MapCorners(pm, box) ==
    Only({ IF c1.rv /= 0 \/ c2.rv /= 0 \/ c3.rv /= 0 \/ c4.rv /= 0
           THEN [rv |-> 1, p |-> Poly(<<>>)]
           ELSE [rv |-> 0, p |-> Poly(<<c1.v, c2.v, c3.v, c4.v>>)]
         : c1 \in {map_to_output_vertex(pm, At(box, 0).x, At(box, 0).y)},
           c2 \in {map_to_output_vertex(pm, At(box, 1).x, At(box, 1).y)},
           c3 \in {map_to_output_vertex(pm, At(box, 2).x, At(box, 2).y)},
           c4 \in {map_to_output_vertex(pm, At(box, 3).x, At(box, 3).y)} })

\* inpq.v[k] = v, the slots of inpq.v being those of the tuple t
SetSlot(t, k, v) == IF k < Len(t) THEN [t EXCEPT ![k + 1] = v] ELSE Append(t, v)

\* a slip that caps the last row by the height of the output image
RowRangeMax_OutputCap(s, ndim) ==
    Min(ndim[1] - 1, Trunc(s.max_y + 2 * MAX_INV_ERR))

\* line 955; ndim plays no part
RowRangeMax(s, ndim) == Min(s.ymax, Trunc(s.max_y + 2 * MAX_INV_ERR))

\* line 954
RowRangeMin(s) == Max(0, Trunc(s.min_y + Half + 2 * MAX_INV_ERR))

-----------------------------------------------------------------------------
(* What each part of the state holds while another part is exercised. *)

\* an edge slot of zeroed memory
ZeroEdge ==
    [v1 |-> Vtx(0, 0), v2 |-> Vtx(0, 0), p |-> 0,
     m |-> Frac(0, 1), b |-> Frac(0, 1), c |-> Frac(0, 1)]

\* the scanner object before init_scanner has run, its memory zeroed
BlankScanner ==
    [left |-> NULL, right |-> NULL, nleft |-> 0, nright |-> 0,
     left_edges |-> [k \in EdgeSlots |-> ZeroEdge],
     right_edges |-> [k \in EdgeSlots |-> ZeroEdge], min_y |-> 0, max_y |-> 0,
     xmin |-> 0, xmax |-> 0, ymin |-> 0, ymax |-> 0, overlap_valid |-> 0]

\* edges left in a scanner by an earlier polygon
StaleEdges ==
    [k \in EdgeSlots |->
        init_edge(Vtx(100, 720 + 30 * k), Vtx(100, 750 + 30 * k), -1)]

\* the scanner the caller passes when it has used it before
StaleScanner ==
    [BlankScanner EXCEPT !.left = 1, !.right = 0, !.min_y = 720,
                         !.max_y = 1080, !.ymax = 9, !.overlap_valid = 1,
                         !.left_edges = StaleEdges, !.right_edges = StaleEdges]

ScanIdle ==
    /\ scn = BlankScanner
    /\ row = NoCall /\ rc = NoCall /\ x1 = 0 /\ x2 = 0
    /\ hEnded = FALSE /\ hMono = TRUE /\ hPrev = <<NULL, NULL>>

MapIdle ==
    /\ mIn = <<W(0), W(0)>> /\ mOut = <<W(0), W(0)>>
    /\ mStatus = NoCall /\ mPc = "idle"

InvIdle ==
    /\ inv = InvStart(Par(0, 0, 0, 0))
    /\ invRef = <<W(0), W(0)>> /\ invXyin = <<W(0), W(0)>>
    /\ invStatus = NoCall /\ invPc = "idle"

PolyIdle ==
    /\ polyP = Poly(<<>>) /\ polyQ = Poly(<<>>) /\ polyPQ = Poly(<<>>)
    /\ polyJunk = Vtx(0, 0)
    /\ polyRv = NoCall /\ polyPc = "idle"
    /\ polyWalk = WalkStart(Poly(<<>>), Poly(<<>>))
    /\ polyIn = [p |-> Poly(<<>>), q |-> Poly(<<>>), pq |-> Poly(<<>>)]

\* the locals of init_image_scanner before it has run
BlankImage ==
    [pc |-> "idle", p |-> Poly(<<>>), q |-> Poly(<<>>), pq |-> Poly(<<>>),
     inpq |-> Poly(<<>>), k |-> 0, n |-> NoCall, ymin |-> 0, ymax |-> 0]

ImgIdle == img = BlankImage /\ outDim = <<0, 0>>

-----------------------------------------------------------------------------
(* The scanner driven row by row. *)

MaxRow == 5

Rows == (0 - 1)..MaxRow

ScanPars ==
    { Par(0, 3, 0, 2), Par(1, 2, 1, 4), Par(0, 4, 2, 1), Par(3, 0, 0, 4) }

ScanPolys ==
    { Poly(<<Vtx(-50, -50), Vtx(350, -50), Vtx(350, 250), Vtx(-50, 250)>>),
      Poly(<<Vtx(100, 20), Vtx(300, 180), Vtx(50, 320)>>),
      Poly(<<Vtx(200, 0), Vtx(400, 200), Vtx(200, 400), Vtx(0, 200)>>),
      Poly(<<Vtx(103, 47), Vtx(397, 112), Vtx(351, 333), Vtx(58, 296)>>),
      Poly(<<Vtx(351, 333), Vtx(58, 296), Vtx(103, 47), Vtx(397, 112)>>),
      Poly(<<Vtx(120, 110), Vtx(260, 150), Vtx(330, 220), Vtx(240, 310),
             Vtx(90, 240)>>),
      Poly(<<Vtx(-50, 150), Vtx(450, 150), Vtx(450, 150), Vtx(-50, 150)>>),
      Poly(<<Vtx(0, 150), Vtx(200, 150), Vtx(400, 150)>>),
      Poly(<<Vtx(393, 43), Vtx(262, 183), Vtx(-12, 286), Vtx(-48, 173)>>) }

InitScan ==
    /\ par \in ScanPars
    /\ pixmap = Pixmap(<< <<NaNCell>> >>)
    /\ MapIdle /\ InvIdle /\ PolyIdle /\ ImgIdle
    /\ \E p \in ScanPolys, s0 \in {BlankScanner, StaleScanner} :
          scn = init_scanner(p, s0, par).s
    /\ row = NoCall /\ rc = NoCall /\ x1 = 0 /\ x2 = 0
    /\ hEnded = FALSE /\ hMono = TRUE /\ hPrev = <<NULL, NULL>>

\* a read past the edge arrays finds zeroed memory or what another object
\* left there
JunkEdges == { ZeroEdge, StaleEdges[0] }

\* no call follows a call that did not return
NextRowInterval(y) ==
    /\ rc /= Fault
    /\ \E junk \in JunkEdges :
       \E r \in {get_scanline_limits(scn, y, x1, x2, junk)} :
        /\ scn' = r.s
        /\ rc' = r.rc
        /\ x1' = r.x1
        /\ x2' = r.x2
        /\ row' = y
        /\ hEnded' = (hEnded \/ rc = 1)
        /\ hMono' = (hMono /\ (row = NoCall \/ y >= row))
        /\ hPrev' = <<scn.left, scn.right>>
        /\ UNCHANGED <<parVars, mapVars, invVars, polyVars, imgVars>>

NextScan == \E y \in Rows : NextRowInterval(y)

SpecScan == InitScan /\ [][NextScan]_vars

Called == row /= NoCall
Cursors == <<scn.left, scn.right>>

\* C1 (as claimed): driven with non-decreasing rows, once a call has returned
\* ScanEnded (1) every later call returns ScanEnded, whatever row is passed.
C1_EndedForEveryRow == (hEnded /\ hMono) => rc = 1

\* C1 (amended): driven with non-decreasing rows, once a call has returned
\* ScanEnded every later call returns ScanEnded, except for a row that fails
\* the bounds checks, which returns OutOfBounds (2); no later call returns an
\* interval or an empty row, and both cursors stay cleared.
C1_EndedOrOutOfBounds ==
    (hEnded /\ hMono) =>
        /\ Cursors = <<NULL, NULL>>
        /\ rc = IF \/ scn.ymax >= scn.ymin /\ (row < 0 \/ row > scn.ymax)
                   \/ row * Unit + Half <= scn.min_y
                   \/ row * Unit - Half >= scn.max_y + Unit
                THEN 2 ELSE 1

\* C1 witness: a call made after the scan had ended returned ScanEnded again
C1_Witness == hEnded /\ hMono /\ Called /\ rc = 1

\* C6 (as claimed): every row outside the clip rows [ymin, ymax], or whose
\* pixel row [y-0.5, y+0.5] lies outside [min_y, max_y], returns OutOfBounds
\* with both cursors unchanged.
C6_OutOfBoundsAsClaimed ==
    (/\ Called
     /\ \/ scn.ymax >= scn.ymin /\ (row < scn.ymin \/ row > scn.ymax)
        \/ row * Unit + Half < scn.min_y
        \/ row * Unit - Half > scn.max_y)
    => (rc = 2 /\ Cursors = hPrev)

\* C6 (amended): every row y with ymax >= ymin and (y < 0 or y > ymax), or
\* with y + 0.5 <= min_y, or with y - 0.5 >= max_y + 1, returns OutOfBounds
\* with both cursors unchanged.
C6_OutOfBounds ==
    (/\ Called
     /\ \/ scn.ymax >= scn.ymin /\ (row < 0 \/ row > scn.ymax)
        \/ row * Unit + Half <= scn.min_y
        \/ row * Unit - Half >= scn.max_y + Unit)
    => (rc = 2 /\ Cursors = hPrev)

\* C6 witness: OutOfBounds returned by a scanner whose cursors had advanced
C6_Witness == Called /\ rc = 2 /\ scn.left /= NULL /\ scn.left > 0

\* the cursor cur of a chain of n edges is cleared or on an edge of the chain,
\* and has not moved back from prev
CursorInChain(cur, prev, n) ==
    /\ n >= 1
    /\ cur /= NULL => (0 <= cur /\ cur <= n - 1)
    /\ (Called /\ cur /= NULL) => (prev /= NULL /\ cur >= prev)

\* C11 (as claimed): for a scanner built by init_scanner from any polygon of
\* 3 or more vertices, over any sequence of row queries both chains are
\* non-empty, each cursor only moves forward and never past the last edge of
\* its chain, and the two cursors are cleared only together.
C11_CursorsWithinChains ==
    /\ CursorInChain(scn.left, hPrev[1], scn.nleft)
    /\ CursorInChain(scn.right, hPrev[2], scn.nright)
    /\ (scn.left = NULL) <=> (scn.right = NULL)

\* the last call returned an interval from a scanner whose clip columns are
\* xmin <= xmax
IntervalReturned == Called /\ rc = 0 /\ scn.xmin <= scn.xmax

\* C12 (as claimed): whenever get_scanline_limits returns an interval (code 0)
\* on a scanner with xmin <= xmax, xmin <= x1 <= x2 <= xmax: a row whose left
\* bound is beyond its right bound is never returned as an interval.
C12_IntervalWithinClip ==
    IntervalReturned => (scn.xmin <= x1 /\ x1 <= x2 /\ x2 <= scn.xmax)

-----------------------------------------------------------------------------
(* map_point called on a point of the input image. *)

MapPixmaps ==
    { Pixmap(<< <<Cell(100, 200), Cell(200, 200), Cell(300, 200)>>,
         <<Cell(100, 300), Cell(200, 300), Cell(300, 300)>>,
         <<Cell(100, 400), Cell(200, 400), Cell(300, 400)>> >>),
      Pixmap(<< <<Cell(0, 0), Cell(110, 20), Cell(230, 45)>>,
         <<Cell(-15, 90), NaNCell, Cell(215, 140)>>,
         <<Cell(-40, 210), Cell(95, 235), Cell(1000, 2000)>> >>),
      Pixmap(<< <<Cell(0, 0), Cell(100, 0), <<WFromUnit(200), WNaN>> >>,
         <<Cell(0, 100), Cell(100, 100), Cell(200, 100)>>,
         << <<WNaN, WFromUnit(200)>>, Cell(100, 200), Cell(200, 200)>> >>),
      Pixmap(<< <<NaNCell, NaNCell, NaNCell>>,
         <<NaNCell, NaNCell, NaNCell>>,
         <<NaNCell, NaNCell, NaNCell>> >>) }

MapPars == { Par(0, 2, 0, 2), Par(1, 2, 0, 1) }

MapCoords == {-100, 0, 50, 100, 175, 200, 300}

InitMap ==
    /\ par \in MapPars
    /\ pixmap \in MapPixmaps
    /\ \E x \in MapCoords, y \in MapCoords : mIn = <<WFromUnit(x), WFromUnit(y)>>
    /\ mOut = <<WFromUnit(-700), WFromUnit(-700)>>
    /\ mStatus = NoCall
    /\ mPc = "call"
    /\ ScanIdle /\ InvIdle /\ PolyIdle /\ ImgIdle

MapPoint ==
    /\ mPc = "call"
    /\ \E xout0 \in UninitDoubles, yout0 \in UninitDoubles :
          \E r \in {map_point(par, pixmap, mIn, mOut, xout0, yout0)} :
              /\ mOut' = r.xyout
              /\ mStatus' = r.status
    /\ mPc' = "done"
    /\ UNCHANGED <<parVars, mIn, invVars, polyVars, imgVars, scanVars>>

NextMap == MapPoint

SpecMap == InitMap /\ [][NextMap]_vars

\* the point passed is a grid node (i, j) of the valid region
AtGridNode(i, j) ==
    /\ mIn = <<WPx(i), WPx(j)>>
    /\ par.xmin <= i /\ i <= par.xmax /\ par.ymin <= j /\ j <= par.ymax

\* C3: at every integer grid node (x, y) of the valid region whose cell is
\* defined, map_point reports success and its output is exactly the value
\* stored in cell (row y, column x).
C3_GridNodeExact ==
    \A i \in 0..2, j \in 0..2 :
        (/\ mPc = "done"
         /\ AtGridNode(i, j)
         /\ ~IsNaN(get_pixmap(pixmap, i, j)[1])
         /\ ~IsNaN(get_pixmap(pixmap, i, j)[2]))
        => (mStatus = 0 /\ mOut = get_pixmap(pixmap, i, j))

-----------------------------------------------------------------------------
(* invert_pixmap, one pass of its loop at a time. *)

\* an image of nx columns and two rows that maps every pixel to itself
WideIdentity(nx) ==
    [nx |-> nx, ny |-> 2,
     rows |-> << <<Cell(0, 0), Cell(Unit, 0)>>,
                 <<Cell(0, Unit), Cell(Unit, Unit)>> >>]

\* the image and its valid region
InvImages ==
    { [par |-> Par(0, 2, 0, 2), pixmap |-> pm] : pm \in MapPixmaps }
    \cup { [par |-> Par(0, n - 1, 0, 1), pixmap |-> WideIdentity(n)] :
             n \in {2, 500000001, 600000001, 2000000001} }
    \cup { [par |-> Par(2, 3, 0, 1), pixmap |-> WideIdentity(4)] }

InvRefs == { <<WFromUnit(30), WFromUnit(40)>>, <<WFromUnit(215), WFromUnit(330)>> }

InitInv ==
    /\ \E im \in InvImages : par = im.par /\ pixmap = im.pixmap
    /\ inv = InvStart(Par(0, 0, 0, 0))
    /\ invRef \in InvRefs
    /\ invXyin = <<WFromUnit(-700), WFromUnit(-700)>>
    /\ invStatus = NoCall
    /\ invPc = "call"
    /\ MapIdle /\ PolyIdle /\ ImgIdle /\ ScanIdle

InvertEnter ==
    /\ invPc = "call"
    /\ inv' = InvStart(par)
    /\ invPc' = "loop"
    /\ UNCHANGED <<parVars, mapVars, invRef, invXyin, invStatus, polyVars,
                   imgVars, scanVars>>

InvertIterate ==
    /\ invPc = "loop"
    /\ InvOn(inv)
    /\ inv' = InvStep(pixmap, invRef, inv)
    /\ UNCHANGED <<parVars, mapVars, invRef, invXyin, invStatus, invPc,
                   polyVars, imgVars, scanVars>>

InvertReturn ==
    /\ invPc = "loop"
    /\ ~InvOn(inv)
    /\ \E r \in {InvReturn(inv, invXyin)} :
          invXyin' = r.xyin /\ invStatus' = r.status
    /\ invPc' = "done"
    /\ UNCHANGED <<parVars, mapVars, inv, invRef, polyVars, imgVars, scanVars>>

NextInv == InvertEnter \/ InvertIterate \/ InvertReturn

SpecInv == InitInv /\ [][NextInv]_vars

\* an extent of the rectangle is still above the tolerance
AboveTol == WLt(InvTol, inv.dx) \/ WLt(InvTol, inv.dy)

\* C9: invert_pixmap stops after at most 50 iterations; unless a sample was
\* undefined, it reports failure exactly when it stopped at the cap with an
\* extent still above the tolerance, reports success whenever both extents
\* are at or below the tolerance, and either way writes the centre of the
\* final rectangle.
C9_ReportsConvergence ==
    (invPc = "done" /\ ~inv.failed) =>
        /\ inv.niter <= nmax_iter
        /\ (invStatus = 1) <=> (inv.niter = nmax_iter /\ AboveTol)
        /\ ~AboveTol => invStatus = 0
        /\ invXyin = <<Centre(inv.xmin, inv.xmax), Centre(inv.ymin, inv.ymax)>>

\* lo <= a <= hi
Within(a, lo, hi) == WLe(lo, a) /\ WLe(a, hi)

\* the point (x, y) lies in the rectangle of the locals st
InRectangle(x, y, st) ==
    Within(x, st.xmin, st.xmax) /\ Within(y, st.ymin, st.ymax)

\* the loop is about to run a pass on the rectangle of inv
PassAhead == invPc = "loop" /\ InvOn(inv)

\* C13 (as claimed): in invert_pixmap, for every valid region, the sample
\* points of every iteration lie inside the current search rectangle, the
\* rectangle never leaves the initial rectangle
\* [xmin-0.5, xmax+0.5] x [ymin-0.5, ymax+0.5], and neither does the estimate
\* returned.
C13_SearchStaysInside ==
    /\ PassAhead =>
          /\ Within(WSub(inv.xmax, GrMul(inv.dx)), inv.xmin, inv.xmax)
          /\ Within(WAdd(inv.xmin, GrMul(inv.dx)), inv.xmin, inv.xmax)
          /\ Within(WSub(inv.ymax, GrMul(inv.dy)), inv.ymin, inv.ymax)
          /\ Within(WAdd(inv.ymin, GrMul(inv.dy)), inv.ymin, inv.ymax)
    /\ invPc \in {"loop", "done"} =>
          /\ InRectangle(inv.xmin, inv.ymin, InvStart(par))
          /\ InRectangle(inv.xmax, inv.ymax, InvStart(par))
    /\ (invPc = "done" /\ ~inv.failed) =>
          InRectangle(invXyin[1], invXyin[2], InvStart(par))

-----------------------------------------------------------------------------
(* intersect_convex_polygons called on two polygons. *)

PolySet ==
    { Poly(<<Vtx(100, 100), Vtx(400, 100), Vtx(400, 400), Vtx(100, 400)>>),
      Poly(<<Vtx(250, 250), Vtx(550, 250), Vtx(550, 550), Vtx(250, 550)>>),
      Poly(<<Vtx(200, 200), Vtx(300, 200), Vtx(300, 300), Vtx(200, 300)>>),
      Poly(<<Vtx(0, 0), Vtx(600, 0), Vtx(0, 600)>>),
      Poly(<<Vtx(450, 0), Vtx(600, 0), Vtx(600, 100)>>),
      Poly(<<Vtx(100, 400), Vtx(400, 400), Vtx(400, 100), Vtx(100, 100)>>),
      Poly(<<Vtx(300, 50), Vtx(550, 200), Vtx(450, 500), Vtx(150, 500),
             Vtx(50, 200)>>),
      Poly(<<Vtx(100, 100), Vtx(400, 100)>>),
      Poly(<<Vtx(100, 100), Vtx(400, 100), Vtx(100, 400)>>) }

\* what the caller's pq may hold before the call
StalePolys ==
    { Poly(<<>>),
      Poly(<<Vtx(0, 0), Vtx(100, 0), Vtx(100, 100), Vtx(0, 100)>>) }

JunkVertices == { Vtx(0, 0), Vtx(700, 50) }

InitPoly ==
    /\ par = Par(0, 0, 0, 0)
    /\ pixmap = Pixmap(<< <<NaNCell>> >>)
    /\ polyP \in PolySet
    /\ polyQ \in PolySet
    /\ polyPQ \in StalePolys
    /\ polyJunk \in JunkVertices
    /\ polyRv = NoCall
    /\ polyPc = "call"
    /\ polyWalk = WalkStart(Poly(<<>>), Poly(<<>>))
    /\ polyIn = [p |-> polyP, q |-> polyQ, pq |-> polyPQ]
    /\ MapIdle /\ InvIdle /\ ImgIdle /\ ScanIdle

Intersect ==
    /\ polyPc = "call"
    /\ \E cmp \in UninitVertices, cmq \in UninitVertices :
          \E r \in {intersect_convex_polygons(polyP, polyQ, polyPQ, cmp,
                                               cmq, polyJunk)} :
              /\ polyP' = r.p
              /\ polyQ' = r.q
              /\ polyPQ' = r.pq
              /\ polyRv' = r.rv
              /\ polyWalk' = r.w
    /\ polyPc' = "done"
    /\ UNCHANGED <<parVars, mapVars, invVars, polyJunk, polyIn, imgVars,
                   scanVars>>

NextPoly == Intersect

SpecPoly == InitPoly /\ [][NextPoly]_vars

\* the sum of the cross products of consecutive vertex pairs
RECURSIVE CrossSum(_, _)
CrossSum(p, k) ==
    IF k >= p.npv THEN 0
    ELSE area(At(p, k), At(p, mod(k + 1, p.npv))) + CrossSum(p, k + 1)

SignedArea(p) == CrossSum(p, 0)

\* the call was given two polygons and has returned
Intersected == polyPc = "done" /\ polyIn.p.npv >= 3 /\ polyIn.q.npv >= 3

\* the edge walk ran
Walked == polyPc = "done" /\ polyWalk.pairs > 0

\* C4: after the orientation step the signed area of a polygon of three or
\* more vertices is non-negative (here: of p and of q, which the call orients
\* in place).
C4_CounterClockwise ==
    Intersected => (SignedArea(polyP) >= 0 /\ SignedArea(polyQ) >= 0)

\* C5: for two convex polygons (given counter-clockwise) of three or more
\* vertices, if every vertex of p lies in every half-plane of q's edges the
\* call succeeds and returns p less its collinear and duplicate vertices;
\* likewise q when q is contained in p.
C5_ContainedReturned ==
    (/\ Intersected
     /\ SignedArea(polyIn.p) > 0
     /\ SignedArea(polyIn.q) > 0) =>
        /\ is_poly_contained(polyIn.p, polyIn.q) =>
              (polyRv = 0 /\ polyPQ = simplify_polygon(polyIn.p))
        /\ (/\ is_poly_contained(polyIn.q, polyIn.p)
            /\ ~is_poly_contained(polyIn.p, polyIn.q)) =>
              (polyRv = 0 /\ polyPQ = simplify_polygon(polyIn.q))

\* C8 (as claimed): the edge walk processes at most 2*(|p|+|q|) edge pairs.
C8_AtMostTwiceTheEdges ==
    Walked => polyWalk.pairs <= 2 * (polyIn.p.npv + polyIn.q.npv)

\* C8 (amended): the edge walk processes at most 2*(|p|+|q|) + 1 edge pairs,
\* exactly that many unless it is left early; it is left at the edge pair at
\* which the first intersection vertex is found again more than one pair
\* after it was last found.
C8_WalkBound ==
    Walked =>
        /\ polyWalk.pairs <= 2 * (polyIn.p.npv + polyIn.q.npv) + 1
        /\ ~polyWalk.brk =>
              polyWalk.pairs = 2 * (polyIn.p.npv + polyIn.q.npv) + 1
        /\ polyWalk.revisit =>
              /\ polyWalk.brk
              /\ polyWalk.pairs = polyWalk.k + 1
              /\ polyWalk.k > polyWalk.first_k + 1

\* C8 witness: a walk left early, before 2*(|p|+|q|) edge pairs, on finding
\* the first intersection vertex again
C8_Witness ==
    /\ Walked
    /\ polyWalk.revisit
    /\ polyWalk.pairs < 2 * (polyIn.p.npv + polyIn.q.npv)

\* the current vertices of the walk w are p.v[ip mod |p|] and q.v[iq mod |q|],
\* the previous ones their cyclic predecessors
Aligned(p, q, w) ==
    /\ w.pv = mod(w.ip, p.npv) /\ w.pv_ = mod(w.ip - 1, p.npv)
    /\ w.qv = mod(w.iq, q.npv) /\ w.qv_ = mod(w.iq - 1, q.npv)

RECURSIVE WalkAligned(_, _, _, _)
\* the walk from w on is aligned before and after every edge pair
WalkAligned(p, q, junk, w) ==
    /\ Aligned(p, q, w)
    /\ IF WalkOn(p, q, w) THEN WalkAligned(p, q, junk, WalkBody(p, q, junk, w))
       ELSE w = polyWalk

\* C14 (as claimed): during the edge walk, for polygons of any sizes >= 3,
\* |p| /= |q| included, after every advance the current vertex of p is
\* p.v[ip mod |p|] and that of q is q.v[iq mod |q|], each with its cyclic
\* predecessor as previous vertex: no slot at or beyond |p| is read and no
\* vertex of p is skipped.
C14_WalkFollowsVertices ==
    Walked => WalkAligned(polyP, polyQ, polyJunk, WalkStart(polyP, polyQ))

\* C10 (as claimed): called with p or q of fewer than 3 vertices the call
\* fails and the caller's result polygon has fewer than 3 vertices.
C10_FailsWithEmptyResult ==
    (polyPc = "done" /\ (polyIn.p.npv < 3 \/ polyIn.q.npv < 3)) =>
        (polyRv = 1 /\ polyPQ.npv < 3)

\* C10 (amended): called with p or q of fewer than 3 vertices the call returns
\* 1 and leaves the caller's result polygon, and p and q, as they were.
C10_FailsLeavingResult ==
    (polyPc = "done" /\ (polyIn.p.npv < 3 \/ polyIn.q.npv < 3)) =>
        /\ polyRv = 1
        /\ polyPQ = polyIn.pq
        /\ polyP = polyIn.p /\ polyQ = polyIn.q

\* C10 witness: the call failed and the result still holds the polygon it
\* held before
C10_Witness ==
    /\ polyPc = "done" /\ polyIn.q.npv < 3
    /\ polyRv = 1 /\ polyPQ.npv >= 3

-----------------------------------------------------------------------------
(* init_image_scanner, step by step. *)

\* the cell of (i, j) maps to (ax*i + bx, ay*j + by) hundredths
AffineCell(i, j, ax, bx, ay, by) == Cell(ax * i + bx, ay * j + by)

AffineRow(j, ax, bx, ay, by) ==
    <<AffineCell(0, j, ax, bx, ay, by), AffineCell(1, j, ax, bx, ay, by),
      AffineCell(2, j, ax, bx, ay, by), AffineCell(3, j, ax, bx, ay, by)>>

\* a pixel map of 4 by 4 cells
AffinePixmap(ax, bx, ay, by) ==
    Pixmap(<<AffineRow(0, ax, bx, ay, by), AffineRow(1, ax, bx, ay, by),
             AffineRow(2, ax, bx, ay, by), AffineRow(3, ax, bx, ay, by)>>)

NaNRow == <<NaNCell, NaNCell, NaNCell, NaNCell>>

NaNPixmap == Pixmap(<<NaNRow, NaNRow, NaNRow, NaNRow>>)

\* the identity, a shift, a reduction by two, a shift out of the output
\* image, a map with undefined cells, and the map with no defined cell
ImgPixmaps ==
    { AffinePixmap(Unit, 0, Unit, 0),
      AffinePixmap(Unit, 130, Unit, -70),
      AffinePixmap(Half, 0, Half, 0),
      AffinePixmap(Unit, 900, Unit, 900),
      Pixmap(<<AffineRow(0, Unit, 0, Unit, 0), AffineRow(1, Unit, 0, Unit, 0),
               AffineRow(2, Unit, 0, Unit, 0), NaNRow>>),
      NaNPixmap }

ImgPars == { Par(0, 3, 0, 3), Par(1, 2, 0, 2) }

ImgDims == { <<4, 4>>, <<2, 3>>, <<6, 5>> }

InitImg ==
    /\ par \in ImgPars
    /\ pixmap \in ImgPixmaps
    /\ outDim \in ImgDims
    /\ img = [BlankImage EXCEPT !.pc = "map"]
    /\ scn \in {BlankScanner, StaleScanner}
    /\ row = NoCall /\ rc = NoCall /\ x1 = 0 /\ x2 = 0
    /\ hEnded = FALSE /\ hMono = TRUE /\ hPrev = <<NULL, NULL>>
    /\ MapIdle /\ InvIdle /\ PolyIdle

\* lines 900-917
ImgMapCorners ==
    /\ img.pc = "map"
    /\ \E r \in {MapCorners(pixmap, InputBox(par))} :
          IF r.rv /= 0
          THEN /\ img' = [img EXCEPT !.inpq = InputBox(par), !.pc = "setup"]
               /\ scn' = [scn EXCEPT !.overlap_valid = 0]
          ELSE /\ img' = [img EXCEPT !.inpq = InputBox(par), !.p = r.p,
                                     !.pc = "intersect"]
               /\ scn' = scn
    /\ UNCHANGED <<parVars, mapVars, invVars, polyVars, outDim, row, rc, x1,
                   x2, hEnded, hMono, hPrev>>

\* lines 919-935
ImgIntersect ==
    /\ img.pc = "intersect"
    /\ \E cmp \in UninitVertices, cmq \in UninitVertices :
          \E r \in {intersect_convex_polygons(img.p, OutputBox(outDim),
                                               img.pq, cmp, cmq, Vtx(0, 0))} :
              IF r.rv /= 0
              THEN /\ img' = [img EXCEPT !.q = OutputBox(outDim),
                                         !.pc = "setup"]
                   /\ scn' = [scn EXCEPT !.overlap_valid = 0]
              ELSE /\ img' = [img EXCEPT !.p = r.p, !.q = r.q, !.pq = r.pq,
                                         !.k = 0, !.pc = "invert"]
                   /\ scn' = scn
    /\ UNCHANGED <<parVars, mapVars, invVars, polyVars, outDim, row, rc, x1,
                   x2, hEnded, hMono, hPrev>>

\* lines 939-944: one pass of the loop over the vertices of pq
ImgInvertVertex ==
    /\ img.pc = "invert"
    /\ img.k < img.pq.npv
    /\ \E r \in {map_to_input_vertex(par, pixmap, At(img.pq, img.k).x,
                                       At(img.pq, img.k).y, Vtx(0, 0))} :
          IF r.rv /= 0
          THEN /\ img' = [img EXCEPT !.pc = "setup"]
               /\ scn' = [scn EXCEPT !.overlap_valid = 0]
          ELSE /\ img' = [img EXCEPT
                             !.inpq.v = SetSlot(img.inpq.v, img.k, r.v),
                             !.k = img.k + 1]
               /\ scn' = scn
    /\ UNCHANGED <<parVars, mapVars, invVars, polyVars, outDim, row, rc, x1,
                   x2, hEnded, hMono, hPrev>>

\* lines 945-947
ImgOrient ==
    /\ img.pc = "invert"
    /\ img.k >= img.pq.npv
    /\ \E cm \in UninitVertices :
          img' = [img EXCEPT
                     !.inpq = orient_ccw(Poly(SubSeq(img.inpq.v, 1, img.pq.npv)),
                                         cm),
                     !.pc = "setup"]
    /\ scn' = [scn EXCEPT !.overlap_valid = 1]
    /\ UNCHANGED <<parVars, mapVars, invVars, polyVars, outDim, row, rc, x1,
                   x2, hEnded, hMono, hPrev>>

\* lines 949-956
ImgSetupScanner ==
    /\ img.pc = "setup"
    /\ \E r \in {init_scanner(img.inpq, scn, par)} :
          /\ scn' = r.s
          /\ img' = [img EXCEPT !.n = r.rv,
                                !.ymin = RowRangeMin(r.s),
                                !.ymax = RowRangeMax(r.s, outDim),
                                !.pc = "done"]
    /\ UNCHANGED <<parVars, mapVars, invVars, polyVars, outDim, row, rc, x1,
                   x2, hEnded, hMono, hPrev>>

NextImg ==
    \/ ImgMapCorners
    \/ ImgIntersect
    \/ ImgInvertVertex
    \/ ImgOrient
    \/ ImgSetupScanner

SpecImg == InitImg /\ [][NextImg]_vars

\* init_image_scanner has returned for a pixel map with no defined cell
DoneOnUndefinedMap == img.pc = "done" /\ pixmap = NaNPixmap

\* C2 (as claimed): when every cell of the pixel map is NaN,
\* init_image_scanner returns non-zero and leaves the cursors cleared.
C2_FailsOnUndefinedMap ==
    DoneOnUndefinedMap => (img.n /= 0 /\ Cursors = <<NULL, NULL>>)

\* C2 (amended): when every cell of the pixel map is NaN, init_image_scanner
\* clears overlap_valid, sets the scanner up on the box bounding the input
\* image's valid region, [xmin-0.5, xmax+0.5] x [ymin-0.5, ymax+0.5], with
\* both cursors at the head of their edge chains, and returns 0.
C2_FallsBackToInputBox ==
    DoneOnUndefinedMap =>
        /\ img.n = 0
        /\ scn.overlap_valid = 0
        /\ Cursors = <<0, 0>>
        /\ scn.nleft = 1 /\ scn.nright = 1
        /\ scn.min_y = par.ymin * Unit - Half
        /\ scn.max_y = par.ymax * Unit + Half
        /\ scn.left_edges[0].v1.x = par.xmin * Unit - Half
        /\ scn.right_edges[0].v1.x = par.xmax * Unit + Half

\* C2 witness: the call returned 0 for a pixel map with no defined cell
C2_Witness == DoneOnUndefinedMap /\ img.n = 0 /\ scn.left = 0

\* C7 (as claimed): the row range is the scanner polygon's y-range, padded by
\* the inversion tolerance, cut to [0, output height - 1].
C7_CappedByOutputHeight ==
    (img.pc = "done" /\ img.n = 0) =>
        /\ img.ymin = Max(0, Trunc(scn.min_y + Half + 2 * MAX_INV_ERR))
        /\ img.ymax = Min(outDim[1] - 1, Trunc(scn.max_y + 2 * MAX_INV_ERR))

\* C7 (amended): when init_image_scanner returns 0, rowRangeMin is the larger
\* of 0 and (int)(min_y + 0.5 + 0.06) and rowRangeMax is the smaller of the
\* valid region's ymax and (int)(max_y + 0.06), min_y and max_y being the
\* y-range of the scanner polygon; the height of the output image plays no
\* part.
C7_CappedByValidRegion ==
    (img.pc = "done" /\ img.n = 0) =>
        /\ img.ymin = Max(0, Trunc(scn.min_y + Half + 2 * MAX_INV_ERR))
        /\ img.ymax = Min(par.ymax, Trunc(scn.max_y + 2 * MAX_INV_ERR))

\* C7 witness: a row range that ends beyond the last row of the output image
C7_Witness ==
    /\ img.pc = "done" /\ img.n = 0 /\ scn.overlap_valid = 1
    /\ img.ymax > outDim[1] - 1

=============================================================================
